---- MODULE Spec2Model ----
(***************************************************************************)
(* Model of the Fluent Bit slog handler of go-slogx-fluentbit              *)
(* (src/handler.go): construction, the level gate, derivation of handlers  *)
(* by WithAttrs / WithGroup, synchronous and asynchronous Handle, and      *)
(* Shutdown.                                                               *)
(*                                                                         *)
(* Handlers are heap objects (NewFluentBitHandler, WithAttrs and WithGroup *)
(* return pointers), so a handler is an index into the sequence handlers.  *)
(* The three slice fields of a handler (attrs, groups, futures) are Go     *)
(* slices: a slice header (array, len, cap) over a backing array that      *)
(* other headers may share.  Backing arrays live in heapA, heapG, heapF.   *)
(*                                                                         *)
(* tasks are the background dispatches, caller is the thread that issues   *)
(* calls one at a time, calls are Handle calls that other threads have in  *)
(* progress.  last (the last call that returned) and origin (what each     *)
(* handler showed when it was created) are history variables.              *)
(***************************************************************************)
EXTENDS Integers, Sequences, FiniteSets, TLC

VARIABLES handlers, heapA, heapG, heapF, tasks, caller, last, origin, calls

vars == <<handlers, heapA, heapG, heapF, tasks, caller, last, origin, calls>>

----------------------------------------------------------------------------
(* Bounds of the model. *)

\* Handlers in SpecDerive and SpecEmit, futures in Spec and SpecLive, futures
\* in SpecDrain and SpecRace, handlers in SpecGroups.
MaxDerived == 5
MaxTasks == 2
MaxDrainTasks == 5
MaxGroupHandlers == 6

----------------------------------------------------------------------------
(* slog levels (golang.org/x/exp/slog) and HTTP status codes. *)

LevelInfo == 0
LevelDebug == LevelInfo - 4
LevelWarn == LevelInfo + 4

\* The first status code handle reports as a failure.
StatusBad == 400

Levels == {LevelDebug, LevelInfo, LevelWarn}

\* HTTP status codes a response may carry: both sides of the >= 400 test.
Statuses == {200, StatusBad - 1, StatusBad}

----------------------------------------------------------------------------
(* Go slices.  A header is [arr, len, cap]; arr = 0 is "no backing array"  *)
(* (the empty literal []T{}).  A backing array is a sequence of cap slots. *)

EmptySlice == [arr |-> 0, len |-> 0, cap |-> 0]

\* The elements a header on heap shows: heap[arr][1..len].
View(heap, s) == IF s.len = 0 THEN <<>> ELSE SubSeq(heap[s.arr], 1, s.len)

\* Capacity picked by append when cap is exceeded (Go runtime growslice for
\* small slices: the needed length if that is more than double the old
\* capacity, double the old capacity otherwise).
GrowCap(oldCap, newLen) == IF newLen > 2 * oldCap THEN newLen ELSE 2 * oldCap

\* s with elems written right after its len, inside its backing array.
AppendInPlace(heap, s, elems) ==
    LET n == s.len + Len(elems)
        arr == [i \in 1..s.cap |->
                   IF i > s.len /\ i <= n THEN elems[i - s.len]
                   ELSE heap[s.arr][i]]
    IN [heap |-> [heap EXCEPT ![s.arr] = arr],
        slice |-> [s EXCEPT !.len = n]]

\* s and elems copied to a fresh backing array; zero fills the spare slots.
AppendRealloc(heap, s, elems, zero) ==
    LET n == s.len + Len(elems)
        c == GrowCap(s.cap, n)
        old == View(heap, s)
        arr == [i \in 1..c |->
                   IF i <= s.len THEN old[i]
                   ELSE IF i <= n THEN elems[i - s.len]
                   ELSE zero]
    IN [heap |-> Append(heap, arr),
        slice |-> [arr |-> Len(heap) + 1, len |-> n, cap |-> c]]

\* The builtin append(s, elems...): the result and the heap after it.
GoAppend(heap, s, elems, zero) ==
    IF Len(elems) = 0 THEN [heap |-> heap, slice |-> s]
    ELSE IF s.len + Len(elems) <= s.cap THEN AppendInPlace(heap, s, elems)
    ELSE AppendRealloc(heap, s, elems, zero)

----------------------------------------------------------------------------
(* Attributes: a key with an integer value, or a group of attributes. *)

Attr(k, v) == [key |-> k, kind |-> "int", val |-> <<v>>]

\* slog.Group(name, attrs...)
Group(name, attrs) == [key |-> name, kind |-> "group", val |-> attrs]

ZeroAttr == [key |-> "", kind |-> "zero", val |-> <<>>]

\* The indices of attrs that hold key k, and the last of them.
Occurrences(attrs, k) == {i \in 1..Len(attrs) : attrs[i].key = k}
LastOccurrence(attrs, k) ==
    CHOOSE i \in Occurrences(attrs, k) : \A j \in Occurrences(attrs, k) : j <= i

\* The members of every group of attrs named k, in order.
RECURSIVE Members(_, _)
Members(attrs, k) ==
    IF attrs = <<>> THEN <<>>
    ELSE IF attrs[1].key = k /\ attrs[1].kind = "group"
    THEN attrs[1].val \o Members(Tail(attrs), k)
    ELSE Members(Tail(attrs), k)

\* attrs with one entry per key, at the place of the key's last occurrence:
\* the last value of a key wins, and the groups of one name are merged and
\* resolved the same way.
RECURSIVE UniqueAttrs(_)
UniqueAttrs(attrs) ==
    LET kept == {i \in 1..Len(attrs) : i = LastOccurrence(attrs, attrs[i].key)}
        F[i \in 0..Len(attrs)] ==
            IF i = 0 THEN <<>>
            ELSE IF i \notin kept THEN F[i - 1]
            ELSE IF attrs[i].kind = "group"
            THEN Append(F[i - 1],
                        Group(attrs[i].key,
                              UniqueAttrs(Members(attrs, attrs[i].key))))
            ELSE Append(F[i - 1], attrs[i])
    IN F[Len(attrs)]

\* slogx.ConsolidateAttrs(h.attrs, h.activeGroup, r): the handler's
\* attributes, then the record's (inside the active group when there is
\* one), with duplicate keys resolved.
ConsolidateAttrs(attrs, activeGroup, rattrs) ==
    UniqueAttrs(attrs \o (IF activeGroup = "" THEN rattrs
                          ELSE <<Group(activeGroup, rattrs)>>))

----------------------------------------------------------------------------
(* Options and construction. *)

\* Level is a slog.Leveler: <<>> is the nil interface, <<l>> holds level l.
NilLevel == <<>>

\* DefaultFluentBitHandlerOptions()
DefaultFluentBitHandlerOptions ==
    [ContentType |-> "application/json",
     EnableAsync |-> FALSE,
     HTTPClient |-> "resty.New",
     Level |-> <<LevelInfo>>,
     RecordFormatter |-> "DefaultJSONFormatter",
     URL |-> ""]

\* Faulty variant: the Level default is forgotten.
SetDefaultOptionsNoLevel(opts) ==
    [opts EXCEPT
       !.ContentType = IF @ = "" THEN "application/json" ELSE @,
       !.HTTPClient = IF @ = "nil" THEN "resty.New" ELSE @]

\* The options NewFluentBitHandler stores: "set default options".
SetDefaultOptions(opts) ==
    [opts EXCEPT
       !.ContentType = IF @ = "" THEN "application/json" ELSE @,
       !.HTTPClient = IF @ = "nil" THEN "resty.New" ELSE @,
       !.Level = IF @ = NilLevel THEN <<LevelInfo>> ELSE @]

\* The handler NewFluentBitHandler builds from validated options.
NewHandlerValue(opts) ==
    [activeGroup |-> "",
     attrs |-> EmptySlice,
     futures |-> EmptySlice,
     groups |-> EmptySlice,
     options |-> SetDefaultOptions(opts)]

\* Faulty variant: the URL validation is missing.
NewFluentBitHandlerAcceptsAnyURL(opts) ==
    [ok |-> TRUE, h |-> <<NewHandlerValue(opts)>>]

\* NewFluentBitHandler(opts): (handler, nil) or (nil, error); h holds the
\* handler when there is one.
NewFluentBitHandler(opts) ==
    IF opts.URL = "" THEN [ok |-> FALSE, h |-> <<>>]
    ELSE [ok |-> TRUE, h |-> <<NewHandlerValue(opts)>>]

\* Faulty variant: the threshold itself is not enabled.
EnabledStrict(h, level) == level > h.options.Level[1]

\* Enabled(ctx, level)
Enabled(h, level) == level >= h.options.Level[1]

----------------------------------------------------------------------------
(* Derivation. *)

\* The struct literal both WithAttrs and WithGroup start from: the slice
\* headers and the options are copied, activeGroup is left at its zero value.
NewHandlerFrom(h) ==
    [activeGroup |-> "",
     attrs |-> h.attrs,
     futures |-> h.futures,
     groups |-> h.groups,
     options |-> h.options]

\* Faulty variant: the attributes are appended unwrapped whatever the active group.
WithAttrsUnwrapped(h, heap, attrs) ==
    LET r == GoAppend(heap, h.attrs, attrs, ZeroAttr)
    IN [h |-> [NewHandlerFrom(h) EXCEPT !.attrs = r.slice,
                                        !.activeGroup = h.activeGroup],
        heap |-> r.heap]

\* WithAttrs(attrs): the new handler and the attrs heap after the append.
WithAttrsValue(h, heap, attrs) ==
    IF h.activeGroup = ""
    THEN LET r == GoAppend(heap, h.attrs, attrs, ZeroAttr)
         IN [h |-> [NewHandlerFrom(h) EXCEPT !.attrs = r.slice],
             heap |-> r.heap]
    ELSE LET r == GoAppend(heap, h.attrs,
                           <<Group(h.activeGroup, attrs)>>, ZeroAttr)
         IN [h |-> [NewHandlerFrom(h) EXCEPT !.attrs = r.slice,
                                             !.activeGroup = h.activeGroup],
             heap |-> r.heap]

\* WithGroup(name): the new handler and the groups heap after the append.
WithGroupValue(h, heap, name) ==
    IF name # ""
    THEN LET r == GoAppend(heap, h.groups, <<name>>, "")
         IN [h |-> [NewHandlerFrom(h) EXCEPT !.groups = r.slice,
                                             !.activeGroup = name],
             heap |-> r.heap]
    ELSE [h |-> NewHandlerFrom(h), heap |-> heap]

\* Faulty variant: the method works on the receiver itself and returns it as well.
StoreDerivedOverReceiver(hs, recv, child) ==
    Append([hs EXCEPT ![recv] = child], child)

\* "newHandler := &fluentBitHandler{...}; return newHandler": the receiver is
\* a copy (value receiver), the result a new heap object.
StoreDerived(hs, recv, child) == Append(hs, child)

----------------------------------------------------------------------------
(* The emission pipeline. *)

Nil == [kind |-> "nil", code |-> 0]
FormatError == [kind |-> "FormatError", code |-> 0]
TransportError == [kind |-> "TransportError", code |-> 0]
DeliveryError(status) == [kind |-> "DeliveryError", code |-> status]

\* What the collaborators answer in one emission: the formatter fails or not,
\* the POST fails or not, the status of the response.  Answers that are never
\* asked for are left at a fixed value.
FormatFails == [fmtErr |-> TRUE, postErr |-> FALSE, status |-> 0]
PostFails == [fmtErr |-> FALSE, postErr |-> TRUE, status |-> 0]
Responds(s) == [fmtErr |-> FALSE, postErr |-> FALSE, status |-> s]

Envs == {FormatFails, PostFails} \cup {Responds(s) : s \in Statuses}

\* The formatter handle calls.
FormatterOf(h) ==
    IF h.options.RecordFormatter # "nil" THEN h.options.RecordFormatter
    ELSE "DefaultJSONFormatter"

\* Faulty variant: a record below the threshold is dropped before formatting.
handleGated(h, level, env) ==
    IF ~Enabled(h, level) THEN [ret |-> Nil, fmt |-> <<>>, post |-> 0]
    ELSE IF env.fmtErr
    THEN [ret |-> FormatError, fmt |-> <<FormatterOf(h)>>, post |-> 0]
    ELSE IF env.postErr
    THEN [ret |-> TransportError, fmt |-> <<FormatterOf(h)>>, post |-> 1]
    ELSE IF env.status >= StatusBad
    THEN [ret |-> DeliveryError(env.status), fmt |-> <<FormatterOf(h)>>,
          post |-> 1]
    ELSE [ret |-> Nil, fmt |-> <<FormatterOf(h)>>, post |-> 1]

\* Faulty variant: a failed POST is tried a second time.
handleRetries(h, level, env) ==
    IF env.fmtErr
    THEN [ret |-> FormatError, fmt |-> <<FormatterOf(h)>>, post |-> 0]
    ELSE IF env.postErr
    THEN [ret |-> TransportError, fmt |-> <<FormatterOf(h)>>, post |-> 2]
    ELSE IF env.status >= StatusBad
    THEN [ret |-> DeliveryError(env.status), fmt |-> <<FormatterOf(h)>>,
          post |-> 2]
    ELSE [ret |-> Nil, fmt |-> <<FormatterOf(h)>>, post |-> 1]

\* Faulty variant: status 400 itself is taken as success.
handleAbove400(h, level, env) ==
    IF env.fmtErr
    THEN [ret |-> FormatError, fmt |-> <<FormatterOf(h)>>, post |-> 0]
    ELSE IF env.postErr
    THEN [ret |-> TransportError, fmt |-> <<FormatterOf(h)>>, post |-> 1]
    ELSE IF env.status > StatusBad
    THEN [ret |-> DeliveryError(env.status), fmt |-> <<FormatterOf(h)>>,
          post |-> 1]
    ELSE [ret |-> Nil, fmt |-> <<FormatterOf(h)>>, post |-> 1]

\* handle(ctx, r): the error returned, the formatter calls made (fmt) and the
\* number of POSTs issued (post).
handle(h, level, env) ==
    IF env.fmtErr
    THEN [ret |-> FormatError, fmt |-> <<FormatterOf(h)>>, post |-> 0]
    ELSE IF env.postErr
    THEN [ret |-> TransportError, fmt |-> <<FormatterOf(h)>>, post |-> 1]
    ELSE IF env.status >= StatusBad
    THEN [ret |-> DeliveryError(env.status), fmt |-> <<FormatterOf(h)>>,
          post |-> 1]
    ELSE [ret |-> Nil, fmt |-> <<FormatterOf(h)>>, post |-> 1]

\* Faulty variant: the future is not kept.
RecordFutureDropped(heap, s, future) == [heap |-> heap, slice |-> s]

\* h.futures = append(h.futures, future)
RecordFuture(heap, s, future) == GoAppend(heap, s, <<future>>, 0)

\* Faulty variant: the task is created but never started.
ExecNotStarted(h, level, rattrs) ==
    [h |-> h, level |-> level, attrs |-> rattrs, pc |-> "created",
     ret |-> Nil, tree |-> <<>>, fmt |-> <<>>, post |-> 0]

\* async.Exec(func): a future for a background task that has not run yet.
Exec(h, level, rattrs) ==
    [h |-> h, level |-> level, attrs |-> rattrs, pc |-> "scheduled",
     ret |-> Nil, tree |-> <<>>, fmt |-> <<>>, post |-> 0]

----------------------------------------------------------------------------
(* State. *)

Idle == [pc |-> "idle", h |-> 0, futures |-> EmptySlice, i |-> 0,
         continueOnError |-> FALSE, awaited |-> <<>>]

\* Faulty variant: without continueOnError the loop ends at the first future
\* whose dispatch returned an error.
AwaitStopsOnError(c, f, result) ==
    IF f # 0 /\ result # Nil /\ ~c.continueOnError
    THEN [c EXCEPT !.i = c.futures.len + 1, !.awaited = Append(@, f)]
    ELSE [c EXCEPT !.i = @ + 1,
                   !.awaited = IF f = 0 THEN @ ELSE Append(@, f)]

\* "if f != nil { f.Await() }" for the future f in turn: the loop moves on,
\* whatever result the dispatch returned.
Await(c, f, result) ==
    [c EXCEPT !.i = @ + 1, !.awaited = IF f = 0 THEN @ ELSE Append(@, f)]

\* What a handler shows of itself: the three sequences and the active group.
Snapshot(hs, hA, hG, hF, h) ==
    [attrs |-> View(hA, hs[h].attrs),
     groups |-> View(hG, hs[h].groups),
     futures |-> View(hF, hs[h].futures),
     activeGroup |-> hs[h].activeGroup]

Snap(h) == Snapshot(handlers, heapA, heapG, heapF, h)

Threshold(h) == handlers[h].options.Level[1]

\* The threads that call Handle on their own, and a thread with no call in
\* progress.
Callers == {"A", "B"}
NoCall == [pc |-> "idle", h |-> 0, future |-> 0, read |-> EmptySlice,
           slice |-> EmptySlice]
NoCalls == [c \in Callers |-> NoCall]

\* The newest handler is recorded as it shows itself at its creation.
Born ==
    origin' = Append(origin, Snapshot(handlers', heapA', heapG', heapF',
                                      Len(handlers')))

\* No handler yet: the state before NewFluentBitHandler is called.
Init0 ==
    /\ handlers = <<>>
    /\ heapA = <<>>
    /\ heapG = <<>>
    /\ heapF = <<>>
    /\ tasks = <<>>
    /\ caller = Idle
    /\ last = [op |-> "none"]
    /\ origin = <<>>
    /\ calls = NoCalls

\* The options the constructor is tried with.
AllOptions ==
    [ContentType : {"", "text/plain"},
     EnableAsync : BOOLEAN,
     HTTPClient : {"nil", "custom"},
     Level : {NilLevel, <<LevelDebug>>, <<LevelWarn>>},
     RecordFormatter : {"nil", "custom"},
     URL : {"", "http://fluentbit"}]

\* The options of the handlers whose operations are explored.
HandlerOptions ==
    [ContentType : {""},
     EnableAsync : BOOLEAN,
     HTTPClient : {"nil"},
     Level : {NilLevel},
     RecordFormatter : {"nil", "custom"},
     URL : {"http://fluentbit"}]

AsyncOptions ==
    [ContentType : {""},
     EnableAsync : {TRUE},
     HTTPClient : {"nil"},
     Level : {NilLevel},
     RecordFormatter : {"nil"},
     URL : {"http://fluentbit"}]

\* The state right after NewFluentBitHandler(opts) returned a handler.
Constructed(opts) ==
    /\ NewFluentBitHandler(opts).ok
    /\ handlers = NewFluentBitHandler(opts).h
    /\ heapA = <<>>
    /\ heapG = <<>>
    /\ heapF = <<>>
    /\ tasks = <<>>
    /\ caller = Idle
    /\ last = [op |-> "New", opts |-> opts, ok |-> TRUE]
    /\ origin = <<Snap(1)>>
    /\ calls = NoCalls

Init == \E opts \in HandlerOptions : Constructed(opts)

InitAsync == \E opts \in AsyncOptions : Constructed(opts)

----------------------------------------------------------------------------
(* Operations.  The caller issues one call at a time; background tasks run  *)
(* on their own.                                                            *)

\* NewFluentBitHandler(opts)
New(opts) ==
    /\ caller.pc = "idle"
    /\ handlers = <<>>
    /\ handlers' = NewFluentBitHandler(opts).h
    /\ last' = [op |-> "New", opts |-> opts,
                ok |-> NewFluentBitHandler(opts).ok]
    /\ UNCHANGED <<heapA, heapG, heapF, tasks, caller, calls>>
    /\ IF NewFluentBitHandler(opts).ok THEN Born ELSE UNCHANGED origin

\* h.Enabled(ctx, level)
EnabledCall(h, level) ==
    /\ caller.pc = "idle"
    /\ last' = [op |-> "Enabled", h |-> h, level |-> level,
                ret |-> Enabled(handlers[h], level), pre |-> handlers[h]]
    /\ UNCHANGED <<handlers, heapA, heapG, heapF, tasks, caller, origin, calls>>

\* h.WithAttrs(attrs)
WithAttrs(h, attrs) ==
    /\ caller.pc = "idle"
    /\ LET r == WithAttrsValue(handlers[h], heapA, attrs)
       IN /\ handlers' = StoreDerived(handlers, h, r.h)
          /\ heapA' = r.heap
    /\ last' = [op |-> "WithAttrs", h |-> h, child |-> Len(handlers) + 1,
                attrs |-> attrs, pre |-> Snap(h)]
    /\ UNCHANGED <<heapG, heapF, tasks, caller, calls>>
    /\ Born

\* h.WithGroup(name)
WithGroup(h, name) ==
    /\ caller.pc = "idle"
    /\ LET r == WithGroupValue(handlers[h], heapG, name)
       IN /\ handlers' = StoreDerived(handlers, h, r.h)
          /\ heapG' = r.heap
    /\ last' = [op |-> "WithGroup", h |-> h, child |-> Len(handlers) + 1,
                name |-> name, pre |-> Snap(h)]
    /\ UNCHANGED <<heapA, heapF, tasks, caller, calls>>
    /\ Born

\* The attributes h.handle hands to the formatter for a record.
Consolidated(h, rattrs) ==
    ConsolidateAttrs(View(heapA, handlers[h].attrs), handlers[h].activeGroup,
                     rattrs)

\* h.Handle(ctx, r) with r.Level = level and the attributes rattrs.
\* Synchronous mode runs the pipeline in the call; asynchronous mode starts
\* a task and records its future.
Handle(h, level, rattrs, envs) ==
    /\ caller.pc = "idle"
    /\ IF ~handlers[h].options.EnableAsync
       THEN \E env \in envs :
              LET r == handle(handlers[h], level, env)
              IN /\ last' = [op |-> "Handle", h |-> h, level |-> level,
                             attrs |-> rattrs, async |-> FALSE,
                             env |-> env, ret |-> r.ret,
                             tree |-> Consolidated(h, rattrs),
                             fmt |-> r.fmt, post |-> r.post,
                             pre |-> Snap(h)]
                 /\ UNCHANGED <<handlers, heapF, tasks>>
       ELSE LET future == Len(tasks) + 1
                r == RecordFuture(heapF, handlers[h].futures, future)
            IN /\ tasks' = Append(tasks, Exec(h, level, rattrs))
               /\ heapF' = r.heap
               /\ handlers' = [handlers EXCEPT ![h].futures = r.slice]
               /\ last' = [op |-> "Handle", h |-> h, level |-> level,
                           attrs |-> rattrs, async |-> TRUE,
                           future |-> future, ret |-> Nil,
                           pre |-> Snap(h)]
    /\ UNCHANGED <<heapA, heapG, caller, origin, calls>>

\* Handle called by thread c while other threads may be inside Handle on the
\* same handler: the asynchronous branch in the three steps at which it
\* touches memory that the threads share.  First, async.Exec starts the task.
HandleExec(c, h, level) ==
    /\ calls[c].pc = "idle"
    /\ handlers[h].options.EnableAsync
    /\ tasks' = Append(tasks, Exec(h, level, <<>>))
    /\ calls' = [calls EXCEPT ![c] = [pc |-> "append", h |-> h,
                                      future |-> Len(tasks) + 1,
                                      read |-> EmptySlice,
                                      slice |-> EmptySlice]]
    /\ UNCHANGED <<handlers, heapA, heapG, heapF, caller, last, origin>>

\* Second, append(h.futures, future) is evaluated: h.futures is read and the
\* future is written behind it, in place or into a new array.
HandleAppend(c) ==
    /\ calls[c].pc = "append"
    /\ LET s == handlers[calls[c].h].futures
           r == RecordFuture(heapF, s, calls[c].future)
       IN /\ heapF' = r.heap
          /\ calls' = [calls EXCEPT ![c].pc = "store", ![c].read = s,
                                    ![c].slice = r.slice]
    /\ UNCHANGED <<handlers, heapA, heapG, tasks, caller, last, origin>>

\* Faulty variant: the list is read again when the result is stored, as if
\* the append and the assignment were one step.
HandleStoreRereads(c) ==
    /\ calls[c].pc = "store"
    /\ LET h == calls[c].h
           r == RecordFuture(heapF, handlers[h].futures, calls[c].future)
       IN /\ heapF' = r.heap
          /\ handlers' = [handlers EXCEPT ![h].futures = r.slice]
          /\ last' = [op |-> "Handle", h |-> h, by |-> c, async |-> TRUE,
                      future |-> calls[c].future, ret |-> Nil,
                      read |-> calls[c].read, slice |-> calls[c].slice]
    /\ calls' = [calls EXCEPT ![c] = NoCall]
    /\ UNCHANGED <<heapA, heapG, tasks, caller, origin>>

\* Third, the result of append is assigned to h.futures and Handle returns
\* nil.
HandleStore(c) ==
    /\ calls[c].pc = "store"
    /\ LET h == calls[c].h
       IN /\ handlers' = [handlers EXCEPT ![h].futures = calls[c].slice]
          /\ last' = [op |-> "Handle", h |-> h, by |-> c, async |-> TRUE,
                      future |-> calls[c].future, ret |-> Nil,
                      read |-> calls[c].read, slice |-> calls[c].slice]
    /\ calls' = [calls EXCEPT ![c] = NoCall]
    /\ UNCHANGED <<heapA, heapG, heapF, tasks, caller, origin>>

\* Faulty variant: a task waits for the tasks started before it.
TaskRunInOrder(t, envs) ==
    /\ tasks[t].pc = "scheduled"
    /\ \A u \in 1..(t - 1) : tasks[u].pc = "done"
    /\ \E env \in envs :
         LET r == handle(handlers[tasks[t].h], tasks[t].level, env)
         IN tasks' = [tasks EXCEPT
                        ![t].pc = "done", ![t].ret = r.ret,
                        ![t].tree = Consolidated(tasks[t].h, tasks[t].attrs),
                        ![t].fmt = r.fmt, ![t].post = r.post]
    /\ UNCHANGED <<handlers, heapA, heapG, heapF, caller, last, origin, calls>>

\* The background task of future t runs h.handle and completes.
TaskRun(t, envs) ==
    /\ tasks[t].pc = "scheduled"
    /\ \E env \in envs :
         LET r == handle(handlers[tasks[t].h], tasks[t].level, env)
         IN tasks' = [tasks EXCEPT
                        ![t].pc = "done", ![t].ret = r.ret,
                        ![t].tree = Consolidated(tasks[t].h, tasks[t].attrs),
                        ![t].fmt = r.fmt, ![t].post = r.post]
    /\ UNCHANGED <<handlers, heapA, heapG, heapF, caller, last, origin, calls>>

\* h.Shutdown(continueOnError) is entered: the receiver is a copy of *h, so
\* the loop ranges over the futures header of this moment.
ShutdownBegin(h, continueOnError) ==
    /\ caller.pc = "idle"
    /\ caller' = [pc |-> "Shutdown", h |-> h,
                  futures |-> handlers[h].futures, i |-> 1,
                  continueOnError |-> continueOnError, awaited |-> <<>>]
    /\ UNCHANGED <<handlers, heapA, heapG, heapF, tasks, last, origin, calls>>

\* One iteration of the loop: f.Await() returns once the task is done.
ShutdownAwait ==
    /\ caller.pc = "Shutdown"
    /\ caller.i <= caller.futures.len
    /\ LET f == heapF[caller.futures.arr][caller.i]
       IN /\ f # 0 => tasks[f].pc = "done"
          /\ caller' = Await(caller, f, IF f = 0 THEN Nil ELSE tasks[f].ret)
    /\ UNCHANGED <<handlers, heapA, heapG, heapF, tasks, last, origin, calls>>

\* The loop is over: Shutdown returns nil.
ShutdownReturn ==
    /\ caller.pc = "Shutdown"
    /\ caller.i > caller.futures.len
    /\ last' = [op |-> "Shutdown", h |-> caller.h,
                continueOnError |-> caller.continueOnError, ret |-> Nil,
                awaited |-> caller.awaited,
                listed |-> View(heapF, caller.futures)]
    /\ caller' = Idle
    /\ UNCHANGED <<handlers, heapA, heapG, heapF, tasks, origin, calls>>

----------------------------------------------------------------------------
(* Specifications. *)

HandlerIds == 1..Len(handlers)

\* Attribute lists given to WithAttrs and group names given to WithGroup.
AttrInputs == {<<>>, <<Attr("a", 1)>>, <<Attr("a", 2), Attr("b", 1)>>}
GroupInputs == {"", "g", "k"}

\* Construction and the level gate, over every combination of options.
NextNew ==
    \/ \E opts \in AllOptions : New(opts)
    \/ \E h \in HandlerIds, level \in Levels : EnabledCall(h, level)

SpecNew == Init0 /\ [][NextNew]_vars

\* Derivation: every handler that WithAttrs and WithGroup build from a
\* constructed one and from each other.
NextDerive ==
    \/ \E h \in HandlerIds, attrs \in AttrInputs :
         Len(handlers) < MaxDerived /\ WithAttrs(h, attrs)
    \/ \E h \in HandlerIds, name \in GroupInputs :
         Len(handlers) < MaxDerived /\ WithGroup(h, name)

SpecDerive == InitAsync /\ [][NextDerive]_vars

\* Emission and shutdown, in both modes, on a constructed handler and on one
\* handler derived from it.
Next ==
    \/ Len(handlers) = 1 /\ WithAttrs(1, <<Attr("a", 1)>>)
    \/ Len(handlers) = 1 /\ WithGroup(1, "g")
    \/ \E h \in HandlerIds, level \in {LevelDebug, LevelInfo} :
         /\ handlers[h].options.EnableAsync => Len(tasks) < MaxTasks
         /\ Handle(h, level, <<>>, Envs)
    \/ \E t \in 1..Len(tasks) : TaskRun(t, Envs)
    \/ \E h \in HandlerIds, c \in BOOLEAN : ShutdownBegin(h, c)
    \/ ShutdownAwait
    \/ ShutdownReturn

Spec == Init /\ [][Next]_vars

\* An asynchronous handler and one handler derived from it, with enough
\* records in flight for the futures slices to have spare capacity.
NextDrain ==
    \/ Len(handlers) = 1 /\ WithAttrs(1, <<Attr("a", 1)>>)
    \/ \E h \in HandlerIds :
         Len(tasks) < MaxDrainTasks /\ Handle(h, LevelInfo, <<>>, Envs)
    \/ \E t \in 1..Len(tasks) : TaskRun(t, {FormatFails, Responds(200)})
    \/ \E h \in HandlerIds : ShutdownBegin(h, FALSE)
    \/ ShutdownAwait
    \/ ShutdownReturn

SpecDrain == InitAsync /\ [][NextDrain]_vars

\* Synchronous handlers derived from each other, and the records they handle.
SyncOptions ==
    [ContentType : {""},
     EnableAsync : {FALSE},
     HTTPClient : {"nil"},
     Level : {NilLevel},
     RecordFormatter : {"nil"},
     URL : {"http://fluentbit"}]

InitSync == \E opts \in SyncOptions : Constructed(opts)

EmitAttrInputs == {<<Attr("a", 1)>>, <<Attr("a", 2)>>,
                   <<Attr("a", 2), Attr("b", 1)>>}
RecordAttrInputs == {<<>>, <<Attr("a", 3)>>}

NextEmit ==
    \/ \E h \in HandlerIds, attrs \in EmitAttrInputs :
         Len(handlers) < MaxDerived /\ WithAttrs(h, attrs)
    \/ \E h \in HandlerIds :
         Len(handlers) < MaxDerived /\ WithGroup(h, "g")
    \/ \E h \in HandlerIds, rattrs \in RecordAttrInputs :
         Handle(h, LevelInfo, rattrs, {Responds(200)})

SpecEmit == InitSync /\ [][NextEmit]_vars

\* Two threads calling Handle on one asynchronous handler without
\* synchronisation, and Shutdown called when no Handle call is in progress.
NextRace ==
    \/ \E c \in Callers, h \in HandlerIds :
         /\ caller.pc = "idle"
         /\ Len(tasks) < MaxDrainTasks
         /\ HandleExec(c, h, LevelInfo)
    \/ \E c \in Callers : HandleAppend(c)
    \/ \E c \in Callers : HandleStore(c)
    \/ \E t \in 1..Len(tasks) : TaskRun(t, {Responds(200)})
    \/ \E h \in HandlerIds :
         /\ \A c \in Callers : calls[c].pc = "idle"
         /\ ShutdownBegin(h, FALSE)
    \/ ShutdownAwait
    \/ ShutdownReturn

SpecRace == InitAsync /\ [][NextRace]_vars

\* An asynchronous handler and one handler derived from it, under fair
\* scheduling: a task that can run does run, every formatter and transport
\* call returns, and the thread inside Shutdown keeps running.
LiveEnvs == {FormatFails, Responds(200)}

NextLive ==
    \/ Len(handlers) = 1 /\ WithGroup(1, "g")
    \/ \E h \in HandlerIds :
         Len(tasks) < MaxTasks /\ Handle(h, LevelInfo, <<>>, LiveEnvs)
    \/ \E t \in 1..Len(tasks) : TaskRun(t, LiveEnvs)
    \/ \E h \in HandlerIds, c \in BOOLEAN : ShutdownBegin(h, c)
    \/ ShutdownAwait
    \/ ShutdownReturn

Fairness ==
    /\ \A t \in 1..MaxTasks :
         WF_vars(t <= Len(tasks) /\ TaskRun(t, LiveEnvs))
    /\ WF_vars(ShutdownAwait)
    /\ WF_vars(ShutdownReturn)

SpecLive == InitAsync /\ [][NextLive]_vars /\ Fairness

\* Groups opened on handlers derived from each other, deep enough for a
\* group-name history to have spare capacity.
NextGroups ==
    \/ \E h \in HandlerIds, name \in GroupInputs :
         Len(handlers) < MaxGroupHandlers /\ WithGroup(h, name)
    \/ \E h \in HandlerIds :
         Len(handlers) < MaxGroupHandlers /\ WithAttrs(h, <<Attr("a", 1)>>)

SpecGroups == InitSync /\ [][NextGroups]_vars

----------------------------------------------------------------------------
(* Properties. *)

Derivations == {"WithAttrs", "WithGroup"}

\* C1: when Shutdown called on a handler returns, every background dispatch
\* scheduled by an earlier Handle call on that handler has completed.
C1_ShutdownAwaitsOwnDispatches ==
    last.op = "Shutdown" =>
        \A t \in 1..Len(tasks) : tasks[t].h = last.h => tasks[t].pc = "done"

\* C2: in asynchronous mode Handle returns nil whatever the dispatch later
\* produces, and the handler's futures list is the list before the call
\* followed by the one future of the scheduled dispatch.
C2_AsyncHandleReturnsNilAndRecordsFuture ==
    (last.op = "Handle" /\ last.async) =>
        /\ last.ret = Nil
        /\ tasks[last.future].h = last.h
        /\ tasks[last.future].level = last.level
        /\ Snap(last.h).futures = Append(last.pre.futures, last.future)

\* An asynchronous Handle has returned nil and its dispatch, appended to a
\* list that already held a future, has since ended in an error.
C2_Witness ==
    /\ last.op = "Handle"
    /\ last.async
    /\ last.ret = Nil
    /\ last.pre.futures # <<>>
    /\ tasks[last.future].pc = "done"
    /\ tasks[last.future].ret = DeliveryError(StatusBad)

\* The outcome of the pipeline for given answers of the collaborators.
PipelineOutcome(env) ==
    CASE env.fmtErr -> FormatError
      [] ~env.fmtErr /\ env.postErr -> TransportError
      [] ~env.fmtErr /\ ~env.postErr /\ env.status >= 400 ->
           DeliveryError(env.status)
      [] OTHER -> Nil

\* C3: in synchronous mode Handle returns the formatter's error if formatting
\* fails, else the transport's error if the POST fails, else a delivery error
\* with the status code if the status is >= 400, else nil.
C3_SyncHandleReturnsPipelineOutcome ==
    (last.op = "Handle" /\ ~last.async) => last.ret = PipelineOutcome(last.env)

\* A synchronous Handle got status 400 and returned the delivery error.
C3_Witness ==
    /\ last.op = "Handle"
    /\ ~last.async
    /\ last.env = Responds(StatusBad)
    /\ last.ret = DeliveryError(StatusBad)

\* C4: after WithAttrs or WithGroup the receiver's attribute sequence, group
\* history and active group are what they were before the call.
C4_DerivationKeepsReceiver ==
    last.op \in Derivations =>
        /\ Snap(last.h).attrs = last.pre.attrs
        /\ Snap(last.h).groups = last.pre.groups
        /\ Snap(last.h).activeGroup = last.pre.activeGroup

\* A child was derived by an append that wrote into the backing array the
\* receiver still uses, under an active group.
C4_Witness ==
    /\ last.op = "WithAttrs"
    /\ last.pre.attrs # <<>>
    /\ last.pre.activeGroup # ""
    /\ handlers[last.child].attrs.arr = handlers[last.h].attrs.arr
    /\ handlers[last.child].attrs.len > handlers[last.h].attrs.len

\* C5: WithGroup("") returns a handler with the receiver's attribute
\* sequence, group history and active group, whatever the receiver.
C5_WithGroupEmptyIsNoOp ==
    (last.op = "WithGroup" /\ last.name = "") =>
        /\ Snap(last.child).attrs = last.pre.attrs
        /\ Snap(last.child).groups = last.pre.groups
        /\ Snap(last.child).activeGroup = last.pre.activeGroup

\* What WithAttrs(attrs) adds to the attribute sequence under active group g.
Added(g, attrs) == IF g = "" THEN attrs ELSE <<Group(g, attrs)>>

\* C6: WithAttrs(A) returns a handler whose attributes are the receiver's
\* followed by A (no active group) or by one group entry named after the
\* active group and holding A; the child keeps the receiver's active group.
C6_WithAttrsAppendsOrWraps ==
    last.op = "WithAttrs" =>
        /\ Snap(last.child).attrs =
             last.pre.attrs \o Added(last.pre.activeGroup, last.attrs)
        /\ Snap(last.child).activeGroup = last.pre.activeGroup

\* A second WithAttrs under the same open group added one more entry wrapped
\* in that group.
C6_Witness ==
    /\ last.op = "WithAttrs"
    /\ last.pre.activeGroup = "g"
    /\ Len(last.attrs) = 2
    /\ Len(last.pre.attrs) > 0
    /\ last.pre.attrs[Len(last.pre.attrs)].key = "g"
    /\ Snap(last.child).attrs = Append(last.pre.attrs, Group("g", last.attrs))

\* C7 as stated: a Handle call with a record below the threshold invokes no
\* formatter and issues no POST, in the call or in its background dispatch.
C7_BelowThresholdNeverEmits ==
    /\ (last.op = "Handle" /\ ~last.async /\ last.level < Threshold(last.h))
         => (last.fmt = <<>> /\ last.post = 0)
    /\ \A t \in 1..Len(tasks) :
         tasks[t].level < Threshold(tasks[t].h)
           => (tasks[t].fmt = <<>> /\ tasks[t].post = 0)

\* C7 amended: Handle applies no level gate.  Whatever the level of the
\* record, a synchronous Handle invokes the formatter once and issues one
\* POST unless formatting failed, and so does every completed background
\* dispatch of an asynchronous Handle.
C7_HandleAppliesNoLevelGate ==
    /\ (last.op = "Handle" /\ ~last.async) =>
         /\ Len(last.fmt) = 1
         /\ last.post = IF last.ret = FormatError THEN 0 ELSE 1
    /\ \A t \in 1..Len(tasks) :
         tasks[t].pc = "done" =>
           /\ Len(tasks[t].fmt) = 1
           /\ tasks[t].post = IF tasks[t].ret = FormatError THEN 0 ELSE 1

\* A record below the threshold was formatted and posted by a background
\* dispatch.
C7_Witness ==
    \E t \in 1..Len(tasks) :
        /\ tasks[t].level < Threshold(tasks[t].h)
        /\ tasks[t].pc = "done"
        /\ Len(tasks[t].fmt) = 1
        /\ tasks[t].post = 1

\* C8: Enabled(level) is true iff level >= the configured threshold, and the
\* handler is as it was before the call.
C8_EnabledIffAtLeastThreshold ==
    last.op = "Enabled" =>
        /\ last.ret <=> (last.level >= Threshold(last.h))
        /\ handlers[last.h] = last.pre
        /\ tasks = <<>>

\* Enabled was asked about the threshold itself, set by the caller, and said
\* yes.
C8_Witness ==
    /\ last.op = "Enabled"
    /\ handlers[last.h].options.Level = <<LevelWarn>>
    /\ last.level = LevelWarn
    /\ last.ret = TRUE

\* Options with a URL and every other field empty.
OnlyURL(opts) ==
    /\ opts.URL # ""
    /\ opts.ContentType = ""
    /\ ~opts.EnableAsync
    /\ opts.HTTPClient = "nil"
    /\ opts.Level = NilLevel
    /\ opts.RecordFormatter = "nil"

FreshHandler(h) ==
    /\ View(heapA, h.attrs) = <<>>
    /\ View(heapG, h.groups) = <<>>
    /\ View(heapF, h.futures) = <<>>
    /\ h.activeGroup = ""

\* C9 as stated: with only the URL given, the handler's stored options hold
\* every default of DefaultFluentBitHandlerOptions, the formatter included.
C9_StoredOptionsHoldEveryDefault ==
    (last.op = "New" /\ OnlyURL(last.opts)) =>
        /\ last.ok
        /\ Len(handlers) = 1
        /\ handlers[1].options =
             [DefaultFluentBitHandlerOptions EXCEPT !.URL = last.opts.URL]
        /\ FreshHandler(handlers[1])

\* C9 amended: with only the URL given, construction succeeds; the stored
\* options hold the defaults for ContentType, Level and HTTPClient, while
\* RecordFormatter stays nil and the default JSON formatter is picked at
\* each emission; attributes, groups and futures are empty and no group is
\* active.
C9_StoredOptionsHoldDefaultsButFormatter ==
    (last.op = "New" /\ OnlyURL(last.opts)) =>
        /\ last.ok
        /\ Len(handlers) = 1
        /\ handlers[1].options =
             [DefaultFluentBitHandlerOptions EXCEPT
                !.URL = last.opts.URL, !.RecordFormatter = "nil"]
        /\ FormatterOf(handlers[1]) = "DefaultJSONFormatter"
        /\ FreshHandler(handlers[1])

\* A handler was constructed from options holding only a URL.
C9_Witness ==
    /\ last.op = "New"
    /\ OnlyURL(last.opts)
    /\ Len(handlers) = 1
    /\ handlers[1].options.Level = <<LevelInfo>>

\* C10: with an empty URL construction fails whatever the other options:
\* there is an error, no handler, and nothing was formatted or posted.
C10_EmptyURLFails ==
    (last.op = "New" /\ last.opts.URL = "") =>
        /\ ~last.ok
        /\ handlers = <<>>
        /\ tasks = <<>>

\* Construction was refused for options that were complete but for the URL.
C10_Witness ==
    /\ last.op = "New"
    /\ last.opts.URL = ""
    /\ last.opts.ContentType = "text/plain"
    /\ last.opts.HTTPClient = "custom"
    /\ last.opts.RecordFormatter = "custom"
    /\ last.opts.Level = <<LevelWarn>>
    /\ ~last.ok

\* C11: Shutdown returns nil after awaiting every future of the handler's
\* list, in the list's order, and every awaited dispatch has completed; this
\* is so for either value of continueOnError and whatever the dispatches
\* returned.
C11_ShutdownAwaitsAllAndReturnsNil ==
    last.op = "Shutdown" =>
        /\ last.ret = Nil
        /\ last.awaited = last.listed
        /\ last.listed = Snap(last.h).futures
        /\ \A i \in 1..Len(last.awaited) : tasks[last.awaited[i]].pc = "done"

\* Shutdown(false) returned nil after awaiting two futures, the first of a
\* dispatch that ended in an error.
C11_Witness ==
    /\ last.op = "Shutdown"
    /\ ~last.continueOnError
    /\ last.ret = Nil
    /\ Len(last.awaited) = 2
    /\ tasks[last.awaited[1]].ret # Nil

\* The attributes of one emission in order: the handler's, then the record's
\* (inside the active group when there is one).
Emitted(attrs, activeGroup, rattrs) ==
    attrs \o (IF activeGroup = "" THEN rattrs
              ELSE <<Group(activeGroup, rattrs)>>)

\* tree holds every key of S once, with the value of the key's last
\* occurrence in S, and so at every group nesting level.
RECURSIVE LastWins(_, _)
LastWins(tree, S) ==
    /\ \A i \in 1..Len(S) : Cardinality(Occurrences(tree, S[i].key)) = 1
    /\ \A j \in 1..Len(tree) :
         /\ Occurrences(S, tree[j].key) # {}
         /\ LET l == S[LastOccurrence(S, tree[j].key)]
            IN IF l.kind = "group"
               THEN /\ tree[j].kind = "group"
                    /\ LastWins(tree[j].val, Members(S, tree[j].key))
               ELSE tree[j] = l

\* C12: the attribute tree handed to the formatter holds each key once at
\* each nesting level, with the value of the key's last occurrence in the
\* order: the attributes the handler was derived with, in derivation order,
\* then the record's attributes.
C12_LastWriteWinsInDerivationOrder ==
    (last.op = "Handle" /\ ~last.async) =>
        LastWins(last.tree,
                 Emitted(origin[last.h].attrs, origin[last.h].activeGroup,
                         last.attrs))

\* The same of the attributes the handler shows at the time of the call.
LastWriteWinsInStoredOrder ==
    (last.op = "Handle" /\ ~last.async) =>
        LastWins(last.tree,
                 Emitted(last.pre.attrs, last.pre.activeGroup, last.attrs))

\* The dispatches that Handle calls on handler h have scheduled.
DispatchesOf(h) == {t \in 1..Len(tasks) : tasks[t].h = h}

\* C13: Handle's read, append and store of the futures list are separate
\* steps with nothing to keep other callers out: when a call returns, the
\* list is the one it read earlier with one entry added, whatever other
\* callers have stored in between.
C13_HandleStoresOverWhatOthersStored ==
    last.op = "Handle" =>
        /\ last.ret = Nil
        /\ handlers[last.h].futures = last.slice
        /\ last.slice.len = last.read.len + 1

\* Two callers have returned from Handle, the list holds fewer futures than
\* dispatches were scheduled, and a later Shutdown has returned while a
\* dispatch that is in no list has not completed.
C13_Witness ==
    /\ last.op = "Shutdown"
    /\ \A c \in Callers : calls[c].pc = "idle"
    /\ Len(Snap(last.h).futures) < Cardinality(DispatchesOf(last.h))
    /\ \E t \in DispatchesOf(last.h) :
         /\ tasks[t].pc = "scheduled"
         /\ \A i \in 1..Len(last.listed) : last.listed[i] # t

\* One emission e: the formatter called at most once, at most one POST, none
\* after a formatter error and no second one after a failed POST.
EmitsOnce(e) ==
    /\ Len(e.fmt) <= 1
    /\ e.post <= 1
    /\ e.ret = FormatError => e.post = 0
    /\ (e.ret # Nil /\ e.ret # FormatError) => e.post = 1

\* C14: every emission, a synchronous Handle call or a background dispatch,
\* calls the formatter at most once and issues at most one POST; it issues
\* none when the formatter fails and does not repeat a POST that failed or
\* was answered with a status of 400 or more.
C14_NoSecondFormatOrPost ==
    /\ (last.op = "Handle" /\ ~last.async) => EmitsOnce(last)
    /\ \A t \in 1..Len(tasks) :
         IF tasks[t].pc = "done" THEN EmitsOnce(tasks[t])
         ELSE tasks[t].fmt = <<>> /\ tasks[t].post = 0

\* A synchronous Handle was answered with status 400 after its one POST and
\* returned the error without posting again.
C14_Witness ==
    /\ last.op = "Handle"
    /\ ~last.async
    /\ last.ret = DeliveryError(StatusBad)
    /\ Len(last.fmt) = 1
    /\ last.post = 1

\* C15: the futures list of a handler is its own: every future in it is of
\* a dispatch that Handle scheduled on that handler, and a handler just
\* derived by WithAttrs or WithGroup has an empty list.
C15_FuturesOwnedByHandler ==
    /\ \A h \in HandlerIds :
         \A i \in 1..Len(Snap(h).futures) :
            tasks[Snap(h).futures[i]].h = h
    /\ last.op \in Derivations => Snap(last.child).futures = <<>>

\* No step cancels or removes a dispatch: the tasks stay, each for the
\* handler and record it was started with, and a completed task stays
\* completed.
DispatchesKept ==
    /\ Len(tasks') >= Len(tasks)
    /\ \A t \in 1..Len(tasks) :
         /\ tasks'[t].h = tasks[t].h
         /\ tasks'[t].level = tasks[t].level
         /\ tasks[t].pc = "done" => tasks'[t] = tasks[t]

\* C16: no operation cancels or removes a dispatch that an asynchronous
\* Handle has scheduled; under fair scheduling every scheduled dispatch
\* eventually completes and every Shutdown call eventually returns.
C16_DispatchesCompleteAndShutdownReturns ==
    /\ [][DispatchesKept]_vars
    /\ \A t \in 1..MaxTasks :
         (Len(tasks) >= t) ~> (Len(tasks) >= t /\ tasks[t].pc = "done")
    /\ (caller.pc = "Shutdown") ~> (caller.pc = "idle")

\* Shutdown has returned after awaiting two dispatches, both completed.
C16_Witness ==
    /\ last.op = "Shutdown"
    /\ Len(last.awaited) >= 2
    /\ \A t \in 1..Len(tasks) : tasks[t].pc = "done"

\* C17: there is no barrier between background dispatches: whichever
\* dispatches are pending, each of them can be the next to run and post its
\* record, so records reach the endpoint in any order.
C17_AnyPendingDispatchMayRunNext ==
    \A t \in 1..Len(tasks) :
        tasks[t].pc = "scheduled" => ENABLED TaskRun(t, Envs)

\* Of two records passed in turn to Handle on one handler, the second has
\* been posted while the dispatch of the first has not run yet.
C17_Witness ==
    /\ Len(tasks) >= 2
    /\ tasks[1].h = tasks[2].h
    /\ tasks[1].pc = "scheduled"
    /\ tasks[1].post = 0
    /\ tasks[2].pc = "done"
    /\ tasks[2].post = 1

\* C18: a derivation does not disturb the handlers that exist: every handler
\* shows the attribute sequence and the group-name history it was created
\* with, whatever was derived since, and its records are consolidated with
\* those attributes.
C18_HandlersKeepWhatTheyWereCreatedWith ==
    /\ \A x \in HandlerIds :
         /\ Snap(x).attrs = origin[x].attrs
         /\ Snap(x).groups = origin[x].groups
    /\ (last.op = "Handle" /\ ~last.async) =>
          last.tree = ConsolidateAttrs(origin[last.h].attrs,
                                       origin[last.h].activeGroup,
                                       last.attrs)

\* C19: the active group of every handler is empty or is the last name of
\* the handler's group-name history.
C19_ActiveGroupIsLastOpened ==
    \A h \in HandlerIds :
        \/ Snap(h).activeGroup = ""
        \/ /\ Snap(h).groups # <<>>
           /\ Snap(h).activeGroup = Snap(h).groups[Len(Snap(h).groups)]

\* s is t or the beginning of t.
IsPrefix(s, t) == Len(s) <= Len(t) /\ \A i \in 1..Len(s) : s[i] = t[i]

\* In one step the futures list of every handler stays as it is or is
\* extended by one entry.
FuturesOnlyGrow ==
    \A x \in HandlerIds :
        LET old == Snap(x).futures
            new == Snapshot(handlers', heapA', heapG', heapF', x).futures
        IN IsPrefix(old, new) /\ Len(new) <= Len(old) + 1

\* C20: the futures list of a handler only grows: no operation removes or
\* replaces an entry, an asynchronous Handle adds one entry to its
\* receiver's list and every other operation leaves the lists as they are.
C20_FuturesListOnlyGrows == [][FuturesOnlyGrow]_vars

====
